---- MODULE Spec2Model ----
(***************************************************************************)
(* Model of the census front end (frontend/src).                           *)
(*                                                                         *)
(* Spec is UnifiedDistributionSystem (App.js): the joint conditional       *)
(* analysis, a fan-out over the bivariate tables of one condition          *)
(* variable, driven by handleJointConditionalAnalysis.                     *)
(*                                                                         *)
(* SpecSummary is one unified analysis request of                          *)
(* UnifiedDemographicAnalysis.js: the orchestrator's fan-out and AGGREGATE *)
(* on the backend, then fetchUnifiedAnalysis storing the response and the  *)
(* component rendering its summary and its per-table sections.             *)
(*                                                                         *)
(* SpecMatcher and SpecCalc are the Category Matcher and the Distribution   *)
(* Calculator of the backend with the front end drawing their results.     *)
(* SpecSort is sortDistributionData (App.js); SpecBivariate is             *)
(* BivariateProbability.js, SpecUnified is UnifiedDemographicAnalysis.js   *)
(* and SpecChat is ChatBot (App.js), each with its requests in flight.     *)
(*                                                                         *)
(* A JavaScript object is a sequence of [key, val] entries in insertion    *)
(* order, which is the order Object.keys / Object.entries report for       *)
(* string keys.  The empty string stands for '' / null / undefined.        *)
(***************************************************************************)
EXTENDS Integers, Sequences, FiniteSets, TLC

VARIABLES
  selectedLocation,          \* prop of UnifiedDistributionSystem (App state)
  jointConditionVariable,    \* useState('age')
  jointConditionValue,       \* useState('')
  jointConditionalResults,   \* useState({}): the published result set
  jointLoading,              \* useState(false)
  run,                       \* the invocation of handleJointConditionalAnalysis in flight
  analysesDone,              \* history: has an analysis completed since the mount
  selectedAnalysisType,      \* UnifiedDemographicAnalysis: useState('age')
  analysisData,              \* useState(null)
  loading,                   \* useState(false)
  error,                     \* useState(null)
  stage,                     \* where the unified analysis request is
  tableOutcomes,             \* orchestrator: the per-table outcomes gathered so far
  response,                  \* the HTTP response on its way to the component
  matching,                  \* one resolution of a value against a category list
  calc,                      \* one computation of the distribution calculator
  sorting,                   \* one call of sortDistributionData
  bivariate,                 \* the state of BivariateProbability and its requests in flight
  unified,                   \* the state of a unified analysis component and its requests in flight
  chat                       \* the state of ChatBot and its request in flight

jointVars == <<selectedLocation, jointConditionVariable, jointConditionValue,
               jointConditionalResults, jointLoading, run, analysesDone>>

summaryVars == <<selectedAnalysisType, analysisData, loading, error, stage,
                 tableOutcomes, response>>

engineVars == <<matching, calc>>

panelVars == <<sorting, bivariate, unified, chat>>

vars == <<jointVars, summaryVars, engineVars, panelVars>>

\* ---------------------------------------------------------------- bounds
\* how many of the options of a condition variable the value select offers
MaxOptions == 2
\* how many different map points are clicked
MaxLocations == 2

\* ---------------------------------------------------------------- helpers
Min(a, b) == IF a < b THEN a ELSE b

Range(s) == {s[i] : i \in 1..Len(s)}

Take(s, n) == SubSeq(s, 1, Min(n, Len(s)))

Locations == 1..MaxLocations

\* ---------------------------------------------------------------- static data
\* App.js CONDITIONAL_OPTIONS
CONDITIONAL_OPTIONS ==
  [age |-> <<"Under 5 years", "5 to 9 years", "10 to 14 years", "15 to 17 years",
             "18 and 19 years", "20 to 24 years", "25 to 29 years", "30 to 34 years",
             "35 to 44 years", "45 to 54 years", "55 to 64 years", "65 to 74 years",
             "75 to 84 years", "85 years and over",
             "Under 25 years", "25 to 44 years", "45 to 64 years", "65 years and over">>,
   income |-> <<"$1 to $2,499 or loss", "$2,500 to $4,999", "$5,000 to $7,499",
                "$7,500 to $9,999", "$10,000 to $12,499", "$12,500 to $14,999",
                "$15,000 to $17,499", "$17,500 to $19,999", "$20,000 to $22,499",
                "$22,500 to $24,999", "$25,000 to $29,999", "$30,000 to $34,999",
                "$35,000 to $39,999", "$40,000 to $44,999", "$45,000 to $49,999",
                "$50,000 to $54,999", "$55,000 to $64,999", "$65,000 to $74,999",
                "$75,000 to $99,999", "$100,000 or more",
                "Less than $10,000", "$10,000 to $14,999", "$15,000 to $19,999",
                "$20,000 to $24,999", "$25,000 to $29,999", "$30,000 to $34,999",
                "$35,000 to $39,999", "$40,000 to $44,999", "$45,000 to $49,999",
                "$50,000 to $59,999", "$60,000 to $74,999", "$75,000 to $99,999",
                "$100,000 to $124,999", "$125,000 to $149,999",
                "$150,000 to $199,999", "$200,000 or more">>,
   gender |-> <<"Male", "Female">>,
   education |-> <<"Less than 9th grade", "9th to 12th grade, no diploma",
                   "High school graduate", "Some college, no degree",
                   "Associate's degree", "Bachelor's degree",
                   "Graduate or professional degree">>,
   profession |-> <<"Management, business, science, and arts occupations",
                    "Service occupations",
                    "Sales and office occupations",
                    "Natural resources, construction, and maintenance occupations",
                    "Production, transportation, and material moving occupations">>,
   race_ethnicity |-> <<"White Alone", "Black or African American Alone",
                        "American Indian and Alaska Native Alone", "Asian Alone",
                        "Native Hawaiian and Other Pacific Islander Alone",
                        "Some Other Race Alone", "Two or More Races", "Hispanic or Latino">>,
   race |-> <<"White Alone", "Black or African American Alone",
              "American Indian and Alaska Native Alone", "Asian Alone",
              "Native Hawaiian and Other Pacific Islander Alone",
              "Some Other Race Alone", "Two or More Races", "Hispanic or Latino">>]

\* BivariateProbability.js JOINT_DISTRIBUTION_CONFIGS: the variables of each table
JOINT_DISTRIBUTION_CONFIGS ==
  [gender_education  |-> <<"gender", "education">>,
   income_gender_new |-> <<"income", "gender">>,
   income_profession |-> <<"income", "profession">>,
   education_race    |-> <<"education", "race">>,
   profession_race   |-> <<"profession", "race">>,
   age_income        |-> <<"age", "income">>,
   age_gender        |-> <<"age", "gender">>,
   age_race          |-> <<"age", "race">>,
   age_education     |-> <<"age", "education">>,
   education_sex     |-> <<"education", "sex">>,
   profession_gender |-> <<"profession", "gender">>]

\* the same mappings with one table of age left out and a table without age put in
distributionMappings_wrongTable ==
  [age |-> <<"age_income", "age_gender", "age_race", "income_profession">>,
   gender |-> <<"gender_education", "income_gender_new", "age_gender", "profession_gender">>,
   income |-> <<"income_gender_new", "age_income", "income_profession">>,
   education |-> <<"gender_education", "education_race", "age_education", "education_sex">>,
   profession |-> <<"profession_race", "profession_gender", "income_profession">>,
   race_ethnicity |-> <<"education_race", "profession_race", "age_race">>]

\* handleJointConditionalAnalysis: distributionMappings
distributionMappings ==
  [age |-> <<"age_income", "age_gender", "age_race", "age_education">>,
   gender |-> <<"gender_education", "income_gender_new", "age_gender", "profession_gender">>,
   income |-> <<"income_gender_new", "age_income", "income_profession">>,
   education |-> <<"gender_education", "education_race", "age_education", "education_sex">>,
   profession |-> <<"profession_race", "profession_gender", "income_profession">>,
   race_ethnicity |-> <<"education_race", "profession_race", "age_race">>]

\* a select that also offers the CONDITIONAL_OPTIONS alias "race"
ConditionVariableOptions_withAlias ==
  {"age", "gender", "income", "education", "profession", "race_ethnicity", "race"}

\* the <option> values of the Condition Variable select
ConditionVariableOptions ==
  {"age", "gender", "income", "education", "profession", "race_ethnicity"}

\* the <option> values of the Condition Value select: '' and
\* CONDITIONAL_OPTIONS[jointConditionVariable]?.map(...)
ConditionValueOptions(v) ==
  IF v \in DOMAIN CONDITIONAL_OPTIONS
  THEN {""} \cup Range(Take(CONDITIONAL_OPTIONS[v], MaxOptions))
  ELSE {""}

\* distributionMappings[jointConditionVariable] || []
DistributionsToFetch(v) ==
  IF v \in DOMAIN distributionMappings THEN distributionMappings[v] ELSE <<>>

\* jointConditionVariable === 'race_ethnicity' ? 'race' : jointConditionVariable
backendConditionType(v) == IF v = "race_ethnicity" THEN "race" ELSE v

\* the words of a table id: distType.includes(w) for the words the code asks about
DistTypeWords ==
  [gender_education  |-> {"gender", "education"},
   income_gender_new |-> {"income", "gender"},
   income_profession |-> {"income", "profession"},
   education_race    |-> {"education", "race"},
   profession_race   |-> {"profession", "race"},
   age_income        |-> {"age", "income"},
   age_gender        |-> {"age", "gender"},
   age_race          |-> {"age", "race"},
   age_education     |-> {"age", "education"},
   education_sex     |-> {"education"},
   profession_gender |-> {"profession", "gender"}]

Includes(distType, w) == w \in DistTypeWords[distType]

\* getDistributionDisplayName: the mapping of its last line
DisplayNameMapping ==
  [gender_education  |-> "Education Distribution",
   income_gender_new |-> "Income Distribution",
   education_race    |-> "Race Distribution",
   profession_race   |-> "Race Distribution",
   age_gender        |-> "Age Distribution",
   profession_gender |-> "Profession Distribution",
   age_income        |-> "Income Distribution",
   age_education     |-> "Education Distribution",
   education_sex     |-> "Sex Distribution",
   age_race          |-> "Race Distribution"]

\* mapping[distType] || distType.replace(/_/g, ' ').replace(/\b\w/g, upper)
DisplayNameFallback(distType) ==
  IF distType \in DOMAIN DisplayNameMapping THEN DisplayNameMapping[distType]
  ELSE IF distType = "income_profession" THEN "Income Profession"
  ELSE distType

\* the name by the mapping alone, whatever the condition variable
getDistributionDisplayName_mappingOnly(distType, conditionVariable) ==
  DisplayNameFallback(distType)

getDistributionDisplayName(distType, conditionVariable) ==
  IF Includes(distType, "gender") /\ conditionVariable # "gender"
    THEN "Gender Distribution"
  ELSE IF Includes(distType, "income") /\ conditionVariable # "income"
    THEN "Income Distribution"
  ELSE IF Includes(distType, "education") /\ conditionVariable # "education"
    THEN "Education Distribution"
  ELSE IF Includes(distType, "profession") /\ conditionVariable # "profession"
    THEN "Profession Distribution"
  ELSE IF Includes(distType, "race") /\ conditionVariable # "race_ethnicity"
    THEN "Race Distribution"
  ELSE IF Includes(distType, "age") /\ conditionVariable # "age"
    THEN "Age Distribution"
  ELSE DisplayNameFallback(distType)

\* ---------------------------------------------------------------- objects
Keys(obj) == [i \in 1..Len(obj) |-> obj[i].key]

HasKey(obj, k) == \E i \in 1..Len(obj) : obj[i].key = k

Get(obj, k) == obj[CHOOSE i \in 1..Len(obj) : obj[i].key = k].val

\* obj[k] = v: an existing key keeps its place, a new key goes last
ObjSet(obj, k, v) ==
  IF HasKey(obj, k)
  THEN [i \in 1..Len(obj) |-> IF obj[i].key = k THEN [key |-> k, val |-> v] ELSE obj[i]]
  ELSE Append(obj, [key |-> k, val |-> v])

\* ---------------------------------------------------------------- the fetch of one table
\* What POST /joint_probability can come back as, seen from the handler:
\*   ok            response.ok, data.conditional_distribution without error
\*   error_payload response.ok, conditional_distribution missing or carrying error
\*   not_found     !response.ok, the table is absent upstream (HTTP 404)
\*   upstream      !response.ok, upstream / infrastructure failure (HTTP 5xx)
\*   network       fetch or response.json() throws (connection lost, timeout)
Kinds == {"ok", "error_payload", "not_found", "upstream", "network"}

Throws(k) == k = "network"

ResponseOk(k) == k \in {"ok", "error_payload"}

HasConditionalDistribution(k) == k = "ok"

NoBody == [distribution_type |-> "", condition_type |-> "", condition_value |-> "",
           location |-> 0]

\* a body built from the selection of the moment the response is handled
RequestBody_liveSelection(distType, r) ==
  [distribution_type |-> distType,
   condition_type |-> backendConditionType(jointConditionVariable),
   condition_value |-> jointConditionValue,
   location |-> selectedLocation]

\* JSON.stringify({lat, lng, distribution_type, condition_type, condition_value}),
\* from the values the invocation closed over
RequestBody(distType, r) ==
  [distribution_type |-> distType,
   condition_type |-> backendConditionType(r.variable),
   condition_value |-> r.value,
   location |-> r.location]

\* data.conditional_distribution: the distribution the backend computes for a
\* request body, named by that body
ConditionalDistributionOf(body) == body

Success(distType, r) ==
  [error |-> "", data |-> ConditionalDistributionOf(RequestBody(distType, r)),
   displayName |-> getDistributionDisplayName(distType, r.variable)]

Failure(msg) == [error |-> msg, data |-> NoBody, displayName |-> ""]

\* result.error ? 'Data not available' : chart
IsError(outcome) == outcome.error # ""

AnyError(obj) == \E i \in 1..Len(obj) : IsError(obj[i].val)

\* one try/catch around the whole loop: after a failure every table reports it
OutcomeOf_stickyError(k, distType, r) ==
  IF Throws(k) \/ (AnyError(r.results) /\ r.results[Len(r.results)].val.error = "Network error")
    THEN Failure("Network error")
  ELSE IF ResponseOk(k) /\ HasConditionalDistribution(k) /\ ~AnyError(r.results)
    THEN Success(distType, r)
  ELSE Failure("Data not available")

\* the body without its two checks of the response: whatever comes back
\* without a throw is recorded as the table's distribution
OutcomeOf_ignoresStatus(k, distType, r) ==
  IF Throws(k) THEN Failure("Network error") ELSE Success(distType, r)

\* the body of the for loop: what results[distType] is set to
OutcomeOf(k, distType, r) ==
  IF Throws(k) THEN Failure("Network error")
  ELSE IF ResponseOk(k) /\ HasConditionalDistribution(k) THEN Success(distType, r)
  ELSE Failure("Data not available")

\* a failure leaves the loop
LoopContinues_breakOnFailure(r, k) == r.i < Len(r.toFetch) /\ k = "ok"

\* for (const distType of distributionsToFetch): is there a next table
LoopContinues(r, k) == r.i < Len(r.toFetch)

\* setJointConditionalResults after every table
ShownDuringLoop_eachTable(shown, accumulated) == accumulated

\* nothing is published inside the loop
ShownDuringLoop(shown, accumulated) == shown

\* ---------------------------------------------------------------- state
Idle == [active |-> FALSE, variable |-> "", value |-> "", location |-> 0,
         toFetch |-> <<>>, i |-> 0, results |-> <<>>]

\* the component as mounted: App renders it once distributionData is there,
\* which is after a map click set selectedLocation
JointInit ==
  /\ selectedLocation \in Locations
  /\ jointConditionVariable = "age"
  /\ jointConditionValue = ""
  /\ jointConditionalResults = <<>>
  /\ jointLoading = FALSE
  /\ run = Idle
  /\ analysesDone = FALSE

NoData == [distributions |-> <<>>,
           metadata |-> [total_distributions |-> 0, successful_retrievals |-> 0]]

NoResponse == [kind |-> "", data |-> NoData]

\* UnifiedDemographicAnalysis as mounted, no request issued
SummaryMounted ==
  /\ analysisData = NoData
  /\ loading = FALSE
  /\ error = ""
  /\ stage = "start"
  /\ tableOutcomes = <<>>
  /\ response = NoResponse

\* no resolution and no computation under way
NoMatching == [stage |-> "idle"]

NoCalc == [stage |-> "idle"]

NoPanel == [stage |-> "idle"]

PanelsIdle ==
  sorting = NoPanel /\ bivariate = NoPanel /\ unified = NoPanel /\ chat = NoPanel

EngineIdle == matching = NoMatching /\ calc = NoCalc /\ PanelsIdle

Init ==
  /\ JointInit
  /\ selectedAnalysisType = "age"
  /\ SummaryMounted
  /\ EngineIdle

\* ---------------------------------------------------------------- actions
\* Condition Variable select onChange
SetJointConditionVariable(v) ==
  /\ v \in ConditionVariableOptions
  /\ v # jointConditionVariable
  /\ jointConditionVariable' = v
  /\ jointConditionValue' = ""
  /\ jointConditionalResults' = <<>>
  /\ UNCHANGED <<selectedLocation, jointLoading, run, analysesDone, summaryVars, engineVars, panelVars>>

\* Condition Value select onChange
SetJointConditionValue(x) ==
  /\ x \in ConditionValueOptions(jointConditionVariable)
  /\ x # jointConditionValue
  /\ jointConditionValue' = x
  /\ UNCHANGED <<selectedLocation, jointConditionVariable, jointConditionalResults,
                 jointLoading, run, analysesDone, summaryVars, engineVars, panelVars>>

\* App.handleMapClick: setSelectedLocation({lat, lng}); the old distributionData
\* stays until the new one arrives, so the component stays mounted
MapClick(l) ==
  /\ l \in Locations
  /\ l # selectedLocation
  /\ selectedLocation' = l
  /\ UNCHANGED <<jointConditionVariable, jointConditionValue, jointConditionalResults,
                 jointLoading, run, analysesDone, summaryVars, engineVars, panelVars>>

\* App: a map click whose /distribution fetch fails sets distributionData to null
\* and unmounts the component; the next click that succeeds mounts a new instance.
\* State updates of the old instance's invocation reach nothing.
Remount(l) ==
  /\ l \in Locations
  /\ selectedLocation' = l
  /\ jointConditionVariable' = "age"
  /\ jointConditionValue' = ""
  /\ jointConditionalResults' = <<>>
  /\ jointLoading' = FALSE
  /\ run' = Idle
  /\ analysesDone' = FALSE
  /\ UNCHANGED <<summaryVars, engineVars, panelVars>>

\* the Analyze button: disabled={!jointConditionValue || jointLoading}
AnalyzeEnabled == jointConditionValue # "" /\ ~jointLoading

\* handleJointConditionalAnalysis up to its first await
Analyze ==
  /\ AnalyzeEnabled
  /\ jointConditionValue # "" /\ selectedLocation # 0
  /\ LET list == DistributionsToFetch(jointConditionVariable)
     IN /\ jointConditionalResults' = <<>>
        /\ IF list = <<>>
           THEN /\ jointLoading' = FALSE
                /\ run' = Idle
                /\ analysesDone' = TRUE
           ELSE /\ jointLoading' = TRUE
                /\ run' = [active |-> TRUE, variable |-> jointConditionVariable,
                           value |-> jointConditionValue, location |-> selectedLocation,
                           toFetch |-> list, i |-> 1, results |-> <<>>]
                /\ UNCHANGED analysesDone
  /\ UNCHANGED <<selectedLocation, jointConditionVariable, jointConditionValue, summaryVars, engineVars, panelVars>>

\* the handler without the try/catch of its loop body: a fetch that throws
\* ends the invocation where it stands, before setJointLoading(false)
FetchSettlesFor_uncaught(j, k) ==
  /\ run.active
  /\ j = run.i
  /\ k \in Kinds
  /\ LET distType == run.toFetch[j]
         results  == ObjSet(run.results, distType, OutcomeOf(k, distType, run))
     IN IF Throws(k)
        THEN /\ run' = Idle
             /\ UNCHANGED <<jointConditionalResults, jointLoading, analysesDone>>
        ELSE IF LoopContinues(run, k)
        THEN /\ run' = [run EXCEPT !.i = j + 1, !.results = results]
             /\ jointConditionalResults' = ShownDuringLoop(jointConditionalResults, results)
             /\ UNCHANGED <<jointLoading, analysesDone>>
        ELSE /\ jointConditionalResults' = results
             /\ jointLoading' = FALSE
             /\ run' = Idle
             /\ analysesDone' = TRUE
  /\ UNCHANGED <<selectedLocation, jointConditionVariable, jointConditionValue, summaryVars, engineVars, panelVars>>

\* The fetch of table number j settles as k and the handler runs to its next
\* await or to its end.  The loop awaits each fetch before it issues the next,
\* so only the table at position run.i has a fetch to settle.
FetchSettlesFor(j, k) ==
  /\ run.active
  /\ j = run.i
  /\ k \in Kinds
  /\ LET distType == run.toFetch[j]
         results  == ObjSet(run.results, distType, OutcomeOf(k, distType, run))
     IN IF LoopContinues(run, k)
        THEN /\ run' = [run EXCEPT !.i = j + 1, !.results = results]
             /\ jointConditionalResults' = ShownDuringLoop(jointConditionalResults, results)
             /\ UNCHANGED <<jointLoading, analysesDone>>
        ELSE /\ jointConditionalResults' = results
             /\ jointLoading' = FALSE
             /\ run' = Idle
             /\ analysesDone' = TRUE
  /\ UNCHANGED <<selectedLocation, jointConditionVariable, jointConditionValue, summaryVars, engineVars, panelVars>>

FetchSettles(k) == FetchSettlesFor(run.i, k)

Next ==
  \/ \E v \in ConditionVariableOptions : SetJointConditionVariable(v)
  \/ \E x \in ConditionValueOptions(jointConditionVariable) : SetJointConditionValue(x)
  \/ \E l \in Locations : MapClick(l)
  \/ \E l \in Locations : Remount(l)
  \/ Analyze
  \/ \E j \in 1..Len(run.toFetch), k \in Kinds : FetchSettlesFor(j, k)

Spec == Init /\ [][Next]_vars

\* ================================================================ one unified analysis
\* UnifiedDemographicAnalysis.js UNIFIED_ANALYSIS_TYPES
UNIFIED_ANALYSIS_TYPES ==
  [age |-> [name |-> "Age Analysis", endpoint |-> "/unified_age_analysis",
            paramKey |-> "age_range",
            options |-> <<"Under 5 years", "5 to 9 years", "10 to 14 years",
                          "15 to 17 years", "18 to 24 years", "25 to 34 years",
                          "35 to 44 years", "45 to 64 years", "65 years and over",
                          "Under 18 years", "18 to 34 years">>],
   education |-> [name |-> "Education Analysis", endpoint |-> "/unified_education_analysis",
                  paramKey |-> "education_level",
                  options |-> <<"Less than 9th grade", "9th to 12th grade, no diploma",
                                "High school graduate", "Some college, no degree",
                                "Associate's degree", "Bachelor's degree",
                                "Graduate or professional degree">>],
   income |-> [name |-> "Income Analysis", endpoint |-> "/unified_income_analysis",
               paramKey |-> "income_range",
               options |-> <<"$25,000 to $29,999", "$30,000 to $34,999",
                             "$35,000 to $39,999", "$45,000 to $49,999",
                             "$50,000 to $59,999", "$60,000 to $74,999",
                             "$75,000 to $99,999", "$100,000 to $124,999",
                             "$150,000 to $199,999">>],
   gender |-> [name |-> "Gender Analysis", endpoint |-> "/unified_gender_analysis",
               paramKey |-> "gender",
               options |-> <<"Male", "Female">>],
   profession |-> [name |-> "Profession Analysis", endpoint |-> "/unified_profession_analysis",
                   paramKey |-> "profession",
                   options |-> <<"Management, business, science, and arts occupations",
                                 "Service occupations",
                                 "Sales and office occupations",
                                 "Natural resources, construction, and maintenance occupations",
                                 "Production, transportation, and material moving occupations",
                                 "Management, business, and financial occupations",
                                 "Professional and related occupations",
                                 "Healthcare practitioners and technical occupations">>],
   race |-> [name |-> "Race/Ethnicity Analysis", endpoint |-> "/unified_race_analysis",
             paramKey |-> "race",
             options |-> <<"White alone", "Black or African American alone", "Asian alone",
                           "American Indian and Alaska Native alone",
                           "Native Hawaiian and Other Pacific Islander alone",
                           "Hispanic or Latino", "Two or more races",
                           "White alone, not Hispanic or Latino">>]]

\* the status of a per-table outcome (getStatusText, getStatusColor)
Statuses == {"success", "no_data", "no_match", "error"}

\* Orchestrator, the static adjacency list variable -> table ids: the tables
\* that involve the anchor variable
UnifiedFanOut(type) ==
  DistributionsToFetch(IF type = "race" THEN "race_ethnicity" ELSE type)

\* Orchestrator AGGREGATE: the ordered per-table outcomes and the summary,
\* total tables attempted and count of success
Aggregate(outcomes) ==
  [distributions |-> outcomes,
   metadata |-> [total_distributions |-> Len(outcomes),
                 successful_retrievals |->
                   Cardinality({n \in 1..Len(outcomes) : outcomes[n].val.status = "success"})]]

\* setError(`Failed to fetch ${analysisConfig.name.toLowerCase()} analysis data`)
CatchMessage ==
  [age |-> "Failed to fetch age analysis analysis data",
   education |-> "Failed to fetch education analysis analysis data",
   income |-> "Failed to fetch income analysis analysis data",
   gender |-> "Failed to fetch gender analysis analysis data",
   profession |-> "Failed to fetch profession analysis analysis data",
   race |-> "Failed to fetch race/ethnicity analysis analysis data"]

\* every section that is not an error is drawn as a chart
RendersChart_notError(entry) == entry.val.status # "error"

\* Object.entries(analysisData.distributions).map: data.status === 'success'
\* goes to renderDistributionChart, anything else to renderFailedDistribution
RendersChart(entry) == entry.val.status = "success"

\* the charts and the failed sections the component draws
ChartsRendered(data) ==
  {n \in 1..Len(data.distributions) : RendersChart(data.distributions[n])}

FailedRendered(data) ==
  {n \in 1..Len(data.distributions) : ~RendersChart(data.distributions[n])}

\* Analysis Summary: {successful_retrievals} of {total_distributions}
SummaryShown(data) ==
  [succeeded |-> data.metadata.successful_retrievals,
   attempted |-> data.metadata.total_distributions]

\* {analysisData && !loading && ...}
SummaryVisible == analysisData # NoData /\ ~loading

SummaryInit ==
  /\ JointInit
  /\ selectedLocation = 1
  /\ selectedAnalysisType \in DOMAIN UNIFIED_ANALYSIS_TYPES
  /\ SummaryMounted
  /\ EngineIdle

\* fetchUnifiedAnalysis up to its await fetch
FetchUnifiedAnalysis ==
  /\ stage = "start"
  /\ selectedLocation # 0 /\ selectedAnalysisType # ""
  /\ loading' = TRUE
  /\ error' = ""
  /\ stage' = "fanout"
  /\ UNCHANGED <<selectedAnalysisType, analysisData, tableOutcomes, response, jointVars, engineVars, panelVars>>

\* Orchestrator FANOUT: the next table of the anchor ends with status s
TableOutcome(s) ==
  /\ stage = "fanout"
  /\ s \in Statuses
  /\ Len(tableOutcomes) < Len(UnifiedFanOut(selectedAnalysisType))
  /\ tableOutcomes' =
       Append(tableOutcomes,
              [key |-> UnifiedFanOut(selectedAnalysisType)[Len(tableOutcomes) + 1],
               val |-> [status |-> s]])
  /\ UNCHANGED <<selectedAnalysisType, analysisData, loading, error, stage, response,
                 jointVars, engineVars, panelVars>>

\* Orchestrator AGGREGATE -> DONE: every table has its outcome, the response is sent
AggregateAndRespond ==
  /\ stage = "fanout"
  /\ Len(tableOutcomes) = Len(UnifiedFanOut(selectedAnalysisType))
  /\ response' = [kind |-> "ok", data |-> Aggregate(tableOutcomes)]
  /\ stage' = "sent"
  /\ UNCHANGED <<selectedAnalysisType, analysisData, loading, error, tableOutcomes,
                 jointVars, engineVars, panelVars>>

\* the request fails as a whole: the geography cannot be resolved (a response
\* that is not ok) or the connection is lost (fetch throws)
RequestFails(kind) ==
  /\ stage = "fanout"
  /\ kind \in {"http_error", "network"}
  /\ kind = "http_error" => tableOutcomes = <<>>
  /\ response' = [kind |-> kind, data |-> NoData]
  /\ stage' = "sent"
  /\ UNCHANGED <<selectedAnalysisType, analysisData, loading, error, tableOutcomes,
                 jointVars, engineVars, panelVars>>

\* fetchUnifiedAnalysis from the settled fetch to its end
ResponseArrives ==
  /\ stage = "sent"
  /\ IF response.kind = "ok"
     THEN /\ analysisData' = response.data
          /\ UNCHANGED error
     ELSE IF response.kind = "http_error"
     THEN /\ error' = "Failed to fetch analysis"
          /\ analysisData' = NoData
     ELSE /\ error' = CatchMessage[selectedAnalysisType]
          /\ analysisData' = NoData
  /\ loading' = FALSE
  /\ stage' = "done"
  /\ response' = NoResponse
  /\ UNCHANGED <<selectedAnalysisType, tableOutcomes, jointVars, engineVars, panelVars>>

SummaryNext ==
  \/ FetchUnifiedAnalysis
  \/ \E s \in Statuses : TableOutcome(s)
  \/ AggregateAndRespond
  \/ \E kind \in {"http_error", "network"} : RequestFails(kind)
  \/ ResponseArrives

SpecSummary == SummaryInit /\ [][SummaryNext]_vars

\* ================================================================ the Category Matcher
\* A label or an input is a sequence of characters.  The alphabet has a letter
\* in both cases, the article "a" (a stopword), a separator and a digit.
Alphabet == {"x", "X", "a", " ", "1"}

\* the longest input tried
MaxLen == 3

\* the longest category list tried
MaxCandidates == 2

Strings == UNION {[1..n -> Alphabet] : n \in 0..MaxLen}

Max(a, b) == IF a > b THEN a ELSE b

Abs(a) == IF a < 0 THEN 0 - a ELSE a

\* a score, a ratio of two naturals
Frac(n, d) == [n |-> n, d |-> d]

One == Frac(1, 1)

Zero == Frac(0, 1)

\* a score that is not reported (undefined in the response)
Missing == Frac(0, 0)

Less(p, q) == p.n * q.d < q.n * p.d

Leq(p, q) == p.n * q.d <= q.n * p.d

\* the floor of 4.2 rule 5
FloorThreshold == Frac(15, 100)

\* the categories of the fixture taxonomy: a label and, for a
\* numeric-range-typed category, its bounds
NoBounds == <<>>

Category(label, bounds) == [label |-> label, bounds |-> bounds]

Pool ==
  <<Category(<<"X">>, NoBounds),
    Category(<<"x", " ", "a">>, NoBounds),
    Category(<<"a", " ", "x">>, NoBounds),
    Category(<<"1", "x">>, <<5, 15>>)>>

\* the category lists: every list without repetition of at most MaxCandidates
\* categories of the pool
CandidateLists ==
  {l \in UNION {[1..n -> Range(Pool)] : n \in 1..MaxCandidates} :
     \A i, j \in 1..Len(l) : i # j => l[i] # l[j]}

\* the keeping of case only
toLower_caseSensitive(s) == s

\* lowercasing
toLower(s) == [i \in 1..Len(s) |-> IF s[i] = "X" THEN "x" ELSE s[i]]

\* t occurs in s
Contains(s, t) ==
  \E i \in 0..(Len(s) - Len(t)) : \A j \in 1..Len(t) : s[i + j] = t[j]

IsAlphanumeric(c) == c # " "

IsDigit(c) == c = "1"

\* split on non-alphanumeric boundaries: the maximal alphanumeric runs
Tokens(s) ==
  {SubSeq(s, p[1], p[2]) : p \in
     {q \in (1..Len(s)) \X (1..Len(s)) :
        /\ q[1] <= q[2]
        /\ \A m \in q[1]..q[2] : IsAlphanumeric(s[m])
        /\ (q[1] = 1 \/ ~IsAlphanumeric(s[q[1] - 1]))
        /\ (q[2] = Len(s) \/ ~IsAlphanumeric(s[q[2] + 1]))}}

\* articles, "or", "and", "the"
Stopwords ==
  {<<"a">>, <<"a", "n">>, <<"t", "h", "e">>, <<"o", "r">>, <<"a", "n", "d">>}

ContentTokens(s) == Tokens(toLower(s)) \ Stopwords

\* Jaccard index of the two token sets
Jaccard(s, t) ==
  LET A == ContentTokens(s)
      B == ContentTokens(t)
  IN IF A \cup B = {} THEN Zero
     ELSE Frac(Cardinality(A \cap B), Cardinality(A \cup B))

DigitValue(c) == IF c = "1" THEN 1 ELSE 0

RECURSIVE NumberValue(_)
NumberValue(digits) ==
  IF digits = <<>> THEN 0
  ELSE 10 * NumberValue(SubSeq(digits, 1, Len(digits) - 1)) + DigitValue(digits[Len(digits)])

\* the number extracted from a string: its first run of digits, -1 when it has none
ExtractNumber(s) ==
  IF \A i \in 1..Len(s) : ~IsDigit(s[i]) THEN 0 - 1
  ELSE LET first == CHOOSE i \in 1..Len(s) :
                      IsDigit(s[i]) /\ \A m \in 1..(i - 1) : ~IsDigit(s[m])
           last  == CHOOSE j \in first..Len(s) :
                      /\ \A m \in first..j : IsDigit(s[m])
                      /\ (j = Len(s) \/ ~IsDigit(s[j + 1]))
       IN NumberValue(SubSeq(s, first, last))

\* the plain ratio of the lengths
SubstringScore_unscaled(shorter, longer) == Frac(shorter, longer)

\* rule 2: the length ratio shorter/longer scaled into [0.6, 0.95)
SubstringScore(shorter, longer) == Frac(60 * longer + 35 * shorter, 100 * longer)

\* rule 3 applies: the category has bounds and the number falls within them or
\* within one width of them
NumericApplies(cat, n) ==
  /\ cat.bounds # NoBounds
  /\ n >= 0
  /\ LET lo == cat.bounds[1]
         hi == cat.bounds[2]
     IN lo - (hi - lo) <= n /\ n <= hi + (hi - lo)

\* twice the distance of n from the midpoint of the bounds
NumericDistance(cat, n) == Abs(2 * n - (cat.bounds[1] + cat.bounds[2]))

\* rule 3: 0.9 at the midpoint, falling with the normalized distance to 0.3
NumericScore(cat, n) ==
  LET width == cat.bounds[2] - cat.bounds[1]
  IN Frac(27 * width - 6 * NumericDistance(cat, n), 30 * width)

\* the rules of 4.2 in their priority order
Rules == <<"exact", "case-insensitive", "substring", "numeric-range-proximity",
           "token-overlap">>

Priority(rule) == CHOOSE k \in 1..Len(Rules) : Rules[k] = rule

\* one candidate: the first rule that hits it and the score that rule computes
\* (token overlap hits every candidate, with its Jaccard index)
ScoreAgainst(input, cat) ==
  LET a == toLower(input)
      b == toLower(cat.label)
      n == ExtractNumber(input)
  IN IF input = cat.label
       THEN [score |-> One, rule |-> "exact", distance |-> 0]
     ELSE IF a = b
       THEN [score |-> One, rule |-> "case-insensitive", distance |-> 0]
     ELSE IF Contains(a, b) \/ Contains(b, a)
       THEN [score |-> SubstringScore(Min(Len(a), Len(b)), Max(Len(a), Len(b))),
             rule |-> "substring", distance |-> 0]
     ELSE IF NumericApplies(cat, n)
       THEN [score |-> NumericScore(cat, n), rule |-> "numeric-range-proximity",
             distance |-> NumericDistance(cat, n)]
     ELSE [score |-> Jaccard(input, cat.label), rule |-> "token-overlap", distance |-> 0]

\* match(inputString, candidateCategories) -> MatchResult.  The rules are tried
\* in priority order and the first that hits a candidate wins; of the
\* candidates it hits the best-scoring is returned, the first of them when
\* several score the same; no_match when that score is not above the floor.
match(inputString, candidateCategories) ==
  LET scored == [i \in 1..Len(candidateCategories) |->
                   ScoreAgainst(inputString, candidateCategories[i])]
      fired == CHOOSE k \in 1..Len(Rules) :
                 /\ \E i \in 1..Len(candidateCategories) : Priority(scored[i].rule) = k
                 /\ \A i \in 1..Len(candidateCategories) : Priority(scored[i].rule) >= k
      hit == {i \in 1..Len(candidateCategories) : Priority(scored[i].rule) = fired}
      best == CHOOSE i \in hit :
                /\ \A j \in hit : Leq(scored[j].score, scored[i].score)
                /\ \A j \in hit : j < i => Less(scored[j].score, scored[i].score)
  IN [input |-> inputString,
      matched |-> candidateCategories[best].label,
      score |-> scored[best].score,
      explanation |-> [rule |-> scored[best].rule, distance |-> scored[best].distance],
      classification |-> IF Less(FloorThreshold, scored[best].score)
                         THEN scored[best].rule ELSE "no_match"]

\* the field under which an outcome reports the score of its match
ScoreFields == {"similarity_score", "overlap_score", "none"}

NoExplanation == [rule |-> "", distance |-> 0]

\* Orchestrator, after MATCH_LOCAL: the per-table outcome.  No usable match
\* gives no_match with the best-effort match and its explanation; a usable
\* match gives success (the distribution itself is the calculator's).
MatchLocalOutcome(result, field) ==
  [status |-> IF result.classification = "no_match" THEN "no_match" ELSE "success",
   error |-> "",
   matched_education |-> result.matched,
   education_explanation |-> result.explanation,
   similarity_score |-> IF field = "similarity_score" THEN result.score ELSE Missing,
   overlap_score |-> IF field = "overlap_score" THEN result.score ELSE Missing]

\* a JavaScript number that is not undefined, 0 or NaN
Truthy(score) == score # Missing /\ score.n # 0

\* score >= t in JavaScript: false when score is undefined
AtLeast(score, t) == score # Missing /\ Leq(t, score)

\* UnifiedDemographicAnalysis.js getSimilarityIndicator
getSimilarityIndicator(score) ==
  IF AtLeast(score, Frac(95, 100)) THEN "Perfect Match"
  ELSE IF AtLeast(score, Frac(8, 10)) THEN "Very Good"
  ELSE IF AtLeast(score, Frac(5, 10)) THEN "Good Match"
  ELSE IF AtLeast(score, Frac(3, 10)) THEN "Partial"
  ELSE "Limited"

\* UnifiedEducationAnalysis getSimilarityIndicator
getSimilarityIndicatorEducation(score) ==
  IF AtLeast(score, Frac(95, 100)) THEN "Perfect Match"
  ELSE IF AtLeast(score, Frac(8, 10)) THEN "Very Good Match"
  ELSE IF AtLeast(score, Frac(6, 10)) THEN "Good Match"
  ELSE IF AtLeast(score, Frac(4, 10)) THEN "Moderate Match"
  ELSE "Limited Match"

\* getStatusText
getStatusText(status) ==
  IF status = "success" THEN "Available"
  ELSE IF status = "no_data" THEN "No Data"
  ELSE IF status = "no_match" THEN "No Match"
  ELSE IF status = "error" THEN "Error"
  ELSE "Unknown"

\* distributionData.similarity_score || distributionData.overlap_score || 1.0
ScoreToShow(distributionData) ==
  IF Truthy(distributionData.similarity_score) THEN distributionData.similarity_score
  ELSE IF Truthy(distributionData.overlap_score) THEN distributionData.overlap_score
  ELSE One

\* UnifiedDemographicAnalysis.js renderDistributionChart: the match shown
\* with a chart
renderDistributionChart(distributionData) ==
  [section |-> "chart",
   score |-> ScoreToShow(distributionData),
   indicator |-> getSimilarityIndicator(ScoreToShow(distributionData)),
   statusText |-> getStatusText(distributionData.status),
   matched |-> distributionData.matched_education,
   explanation |-> distributionData.education_explanation,
   message |-> ""]

\* UnifiedEducationAnalysis renderDistributionChart
renderDistributionChartEducation(distributionData) ==
  [section |-> "chart",
   score |-> distributionData.similarity_score,
   indicator |-> getSimilarityIndicatorEducation(distributionData.similarity_score),
   statusText |-> getStatusText(distributionData.status),
   matched |-> distributionData.matched_education,
   explanation |-> distributionData.education_explanation,
   message |-> ""]

\* distributionData.error || 'Unable to retrieve data'
FailedMessage(distributionData) ==
  IF distributionData.error # "" THEN distributionData.error ELSE "Unable to retrieve data"

\* UnifiedDemographicAnalysis.js renderFailedDistribution
renderFailedDistribution(distributionData) ==
  [section |-> "failed",
   score |-> Missing,
   indicator |-> "",
   statusText |-> getStatusText(distributionData.status),
   matched |-> <<>>,
   explanation |-> NoExplanation,
   message |-> FailedMessage(distributionData)]

\* a failed section without its line for the best match
renderFailedDistributionEducation_noBestMatch(distributionData) ==
  renderFailedDistribution(distributionData)

\* UnifiedEducationAnalysis renderFailedDistribution: also
\* "Best match found: {matched_education}" when there is one
renderFailedDistributionEducation(distributionData) ==
  [section |-> "failed",
   score |-> Missing,
   indicator |-> "",
   statusText |-> getStatusText(distributionData.status),
   matched |-> distributionData.matched_education,
   explanation |-> NoExplanation,
   message |-> FailedMessage(distributionData)]

Components == {"UnifiedDemographicAnalysis", "UnifiedEducationAnalysis"}

\* Object.entries(analysisData.distributions).map: a success goes to
\* renderDistributionChart, anything else to renderFailedDistribution
RenderSection(component, distributionData) ==
  IF component = "UnifiedDemographicAnalysis"
  THEN IF distributionData.status = "success"
       THEN renderDistributionChart(distributionData)
       ELSE renderFailedDistribution(distributionData)
  ELSE IF distributionData.status = "success"
       THEN renderDistributionChartEducation(distributionData)
       ELSE renderFailedDistributionEducation(distributionData)

\* a value to resolve and the category list of a table, nothing done yet
MatcherInit ==
  /\ JointInit
  /\ selectedLocation = 1
  /\ selectedAnalysisType = "education"
  /\ SummaryMounted
  /\ calc = NoCalc
  /\ PanelsIdle
  /\ matching \in {[stage |-> "start", input |-> s, candidates |-> l] :
                     s \in Strings, l \in CandidateLists}

\* Orchestrator MATCH_LOCAL: the value is resolved against the table's list
MatchLocal ==
  /\ matching.stage = "start"
  /\ matching' = [stage |-> "matched", input |-> matching.input,
                  candidates |-> matching.candidates,
                  result |-> match(matching.input, matching.candidates)]
  /\ UNCHANGED <<jointVars, summaryVars, calc, panelVars>>

\* Orchestrator: the outcome of the table is recorded, its score reported
\* under one of the fields the front end reads, or not reported
RecordOutcome(field) ==
  /\ matching.stage = "matched"
  /\ field \in ScoreFields
  /\ matching' = [stage |-> "recorded", input |-> matching.input,
                  candidates |-> matching.candidates, result |-> matching.result,
                  outcome |-> MatchLocalOutcome(matching.result, field)]
  /\ UNCHANGED <<jointVars, summaryVars, calc, panelVars>>

\* a component draws the section of the outcome
Render(component) ==
  /\ matching.stage = "recorded"
  /\ component \in Components
  /\ matching' = [stage |-> "rendered", input |-> matching.input,
                  candidates |-> matching.candidates, result |-> matching.result,
                  outcome |-> matching.outcome, component |-> component,
                  shown |-> RenderSection(component, matching.outcome)]
  /\ UNCHANGED <<jointVars, summaryVars, calc, panelVars>>

MatcherNext ==
  \/ MatchLocal
  \/ \E field \in ScoreFields : RecordOutcome(field)
  \/ \E component \in Components : Render(component)

SpecMatcher == MatcherInit /\ [][MatcherNext]_vars

\* ================================================================ the Distribution Calculator
\* the largest count of a cell
MaxCount == 2

\* RawCountTable: the variables it cross-tabulates, their table-local
\* categories and a count for every pair of categories
TableVariables == <<"age", "income">>

TableCategories ==
  <<(<<"Under 25 years", "25 to 44 years">>),
    (<<"Less than $10,000", "$10,000 to $14,999", "$15,000 to $19,999">>)>>

RawCountTables ==
  {[variables |-> TableVariables, categories |-> TableCategories, counts |-> c] :
     c \in [Range(TableCategories[1]) \X Range(TableCategories[2]) -> 0..MaxCount]}

RECURSIVE SumSeq(_)
SumSeq(s) == IF s = <<>> THEN 0 ELSE s[1] + SumSeq(Tail(s))

\* the position of a variable among the variables of the table
Axis(table, variable) == CHOOSE a \in 1..2 : table.variables[a] = variable

OtherVariable(table, variable) == table.variables[3 - Axis(table, variable)]

\* percentage = count / total x 100, 0 when total is 0
Percentage(count, total) == IF total = 0 THEN Zero ELSE Frac(100 * count, total)

\* marginal(table, variable): per category of the variable the sum of the
\* counts across the other axis, and its percentage of the total
marginal(table, variable) ==
  LET axis == Axis(table, variable)
      cats == table.categories[axis]
      others == table.categories[3 - axis]
      Cell(c, o) == IF axis = 1 THEN table.counts[<<c, o>>] ELSE table.counts[<<o, c>>]
      counts == [i \in 1..Len(cats) |->
                   SumSeq([j \in 1..Len(others) |-> Cell(cats[i], others[j])])]
      total == SumSeq(counts)
  IN [variable |-> variable,
      total |-> total,
      items |-> [i \in 1..Len(cats) |->
                   [category |-> cats[i], count |-> counts[i],
                    percentage |-> Percentage(counts[i], total)]]]

\* no restriction: the whole table
Restrict_wholeTable(table, variable, category) == table

\* the rows/columns that match category on variable
Restrict(table, variable, category) ==
  [table EXCEPT !.categories[Axis(table, variable)] = <<category>>]

\* conditional(table, conditionVariable, conditionCategory): the marginal of
\* the remaining variable over the restricted slice
conditional(table, conditionVariable, conditionCategory) ==
  marginal(Restrict(table, conditionVariable, conditionCategory),
           OtherVariable(table, conditionVariable))

\* StorewiseDemographics.js DistributionChart: data.reduce((sum, item) => sum + item.population, 0)
ChartTotal_fromLength(data) == Len(data)

ChartTotal(data) == SumSeq([i \in 1..Len(data) |-> data[i].count])

\* the percentage without its guard: 0/0 is NaN
TooltipPercentage_unguarded(value, total) == Frac(100 * value, total)

\* CustomTooltip: total > 0 ? ((value / total) * 100) : 0
TooltipPercentage(value, total) == IF total > 0 THEN Frac(100 * value, total) ELSE Zero

\* DistributionChart with the tooltip of each of its bars; nothing is drawn
\* for no data
DistributionChart(data) ==
  IF data = <<>> THEN [total |-> 0, bars |-> <<>>]
  ELSE [total |-> ChartTotal(data),
        bars |-> [i \in 1..Len(data) |->
                    [name |-> data[i].category, value |-> data[i].count,
                     percentage |-> TooltipPercentage(data[i].count, ChartTotal(data))]]]

\* a request of the joint analysis for the condition of the computation
CalcRequest(variable, category) ==
  [Idle EXCEPT !.active = TRUE, !.variable = variable, !.value = category, !.location = 1]

\* what handleJointConditionalAnalysis records for a fetch that settles as k
\* with this conditional distribution in its response
ResultFor(k, distribution, variable, category) ==
  IF IsError(OutcomeOf(k, "age_income", CalcRequest(variable, category)))
  THEN [error |-> OutcomeOf(k, "age_income", CalcRequest(variable, category)).error,
        data |-> <<>>, total_population |-> 0]
  ELSE [error |-> "", data |-> distribution.items, total_population |-> distribution.total]

\* UnifiedDistributionSystem, one entry of jointConditionalResults:
\* result.error ? 'Data not available'
\* : result.data.length > 0 ? chart, 'Total Population: {total_population || 0}'
\* : 'No data available'
RenderJointResult(result) ==
  IF result.error # "" THEN [section |-> "Data not available", total |-> 0, bars |-> <<>>]
  ELSE IF Len(result.data) > 0
    THEN [section |-> "chart", total |-> result.total_population,
          bars |-> [i \in 1..Len(result.data) |-> result.data[i].percentage]]
  ELSE [section |-> "No data available", total |-> 0, bars |-> <<>>]

\* a table of raw counts, nothing computed yet
CalcInit ==
  /\ JointInit
  /\ selectedLocation = 1
  /\ selectedAnalysisType = "age"
  /\ SummaryMounted
  /\ matching = NoMatching
  /\ PanelsIdle
  /\ calc \in {[stage |-> "start", table |-> t] : t \in RawCountTables}

ComputeMarginal(variable) ==
  /\ calc.stage = "start"
  /\ variable \in Range(calc.table.variables)
  /\ calc' = [stage |-> "marginal", table |-> calc.table, variable |-> variable,
              distribution |-> marginal(calc.table, variable)]
  /\ UNCHANGED <<jointVars, summaryVars, matching, panelVars>>

\* the marginal drawn by DistributionChart
ShowChart ==
  /\ calc.stage = "marginal"
  /\ calc' = [stage |-> "charted", table |-> calc.table, variable |-> calc.variable,
              distribution |-> calc.distribution,
              chart |-> DistributionChart(calc.distribution.items)]
  /\ UNCHANGED <<jointVars, summaryVars, matching, panelVars>>

ComputeConditional(variable, category) ==
  /\ calc.stage = "start"
  /\ variable \in Range(calc.table.variables)
  /\ category \in Range(calc.table.categories[Axis(calc.table, variable)])
  /\ calc' = [stage |-> "conditional", table |-> calc.table, variable |-> variable,
              category |-> category,
              distribution |-> conditional(calc.table, variable, category)]
  /\ UNCHANGED <<jointVars, summaryVars, matching, panelVars>>

\* the fetch that asked for the conditional distribution settles as k
Respond(k) ==
  /\ calc.stage = "conditional"
  /\ k \in Kinds
  /\ calc' = [stage |-> "responded", table |-> calc.table, variable |-> calc.variable,
              category |-> calc.category, distribution |-> calc.distribution,
              kind |-> k,
              result |-> ResultFor(k, calc.distribution, calc.variable, calc.category)]
  /\ UNCHANGED <<jointVars, summaryVars, matching, panelVars>>

\* the entry of the result is drawn
RenderResult ==
  /\ calc.stage = "responded"
  /\ calc' = [stage |-> "rendered", table |-> calc.table, variable |-> calc.variable,
              category |-> calc.category, distribution |-> calc.distribution,
              kind |-> calc.kind,
              result |-> calc.result, shown |-> RenderJointResult(calc.result)]
  /\ UNCHANGED <<jointVars, summaryVars, matching, panelVars>>

CalcNext ==
  \/ \E variable \in Range(TableVariables) : ComputeMarginal(variable)
  \/ ShowChart
  \/ \E variable \in Range(TableVariables), category \in UNION {Range(l) : l \in Range(TableCategories)} :
       ComputeConditional(variable, category)
  \/ \E k \in Kinds : Respond(k)
  \/ RenderResult

SpecCalc == CalcInit /\ [][CalcNext]_vars

\* ================================================================ table-local categories
\* BivariateProbability.js DISTRIBUTION_OPTIONS: the categories of the raw
\* Census data of each distribution type
DISTRIBUTION_OPTIONS ==
  [age_income |->
     [age |-> <<"Householder under 25 years", "Householder 25 to 44 years",
                "Householder 45 to 64 years", "Householder 65 years and over">>,
      income |-> <<"Less than $10,000", "$10,000 to $14,999", "$15,000 to $19,999",
                   "$20,000 to $24,999", "$25,000 to $29,999", "$30,000 to $34,999",
                   "$35,000 to $39,999", "$40,000 to $44,999", "$45,000 to $49,999",
                   "$50,000 to $59,999", "$60,000 to $74,999", "$75,000 to $99,999",
                   "$100,000 to $124,999", "$125,000 to $149,999",
                   "$150,000 to $199,999", "$200,000 or more">>],
   age_education |->
     [age |-> <<"18 to 24 years", "25 to 34 years", "35 to 44 years",
                "45 to 64 years", "65 years and over">>,
      education |-> <<"Less than 9th grade", "9th to 12th grade, no diploma",
                      "High school graduate (includes equivalency)",
                      "Some college, no degree", "Associate's degree",
                      "Bachelor's degree", "Graduate or professional degree">>],
   education_sex |->
     [education |-> <<"Less than 9th grade", "9th to 12th grade, no diploma",
                      "High school graduate (includes equivalency)",
                      "Some college, no degree", "Associate's degree",
                      "Bachelor's degree", "Graduate or professional degree">>,
      sex |-> <<"Male", "Female">>],
   default |->
     [age |-> <<"18 to 24 years", "25 to 34 years", "35 to 44 years",
                "45 to 64 years", "65 years and over">>,
      income |-> <<"$1 to $2,499 or loss", "$2,500 to $4,999", "$5,000 to $7,499",
                   "$7,500 to $9,999", "$10,000 to $12,499", "$12,500 to $14,999",
                   "$15,000 to $17,499", "$17,500 to $19,999", "$20,000 to $22,499",
                   "$22,500 to $24,999", "$25,000 to $29,999", "$30,000 to $34,999",
                   "$35,000 to $39,999", "$40,000 to $44,999", "$45,000 to $49,999",
                   "$50,000 to $54,999", "$55,000 to $64,999", "$65,000 to $74,999",
                   "$75,000 to $99,999", "$100,000 or more">>]]

\* BivariateProbability.js CONDITIONAL_OPTIONS
CONDITIONAL_OPTIONS_Bivariate ==
  [age |-> <<"Under 5 years", "5 to 9 years", "10 to 14 years", "15 to 17 years",
             "18 and 19 years", "20 to 24 years", "25 to 29 years", "30 to 34 years",
             "35 to 44 years", "45 to 54 years", "55 to 64 years", "65 to 74 years",
             "75 to 84 years", "85 years and over">>,
   income |-> DISTRIBUTION_OPTIONS.default.income,
   gender |-> <<"Male", "Female">>,
   sex |-> <<"Male", "Female">>,
   race |-> <<"White Alone", "Black or African American Alone",
              "American Indian and Alaska Native Alone", "Asian Alone",
              "Native Hawaiian and Other Pacific Islander Alone",
              "Some Other Race Alone", "Two or More Races", "Hispanic or Latino",
              "White Alone, Not Hispanic or Latino">>,
   education |-> <<"Less than high school", "High school graduate", "Some college",
                   "Associate degree", "Bachelor's degree", "Graduate degree">>,
   profession |-> <<"Management, business, science, and arts occupations",
                    "Service occupations",
                    "Sales and office occupations",
                    "Natural resources, construction, and maintenance occupations",
                    "Production, transportation, and material moving occupations">>]

\* the options of the value select of BivariateProbability: the categories of
\* the selected distribution for the condition type where it lists them,
\* else CONDITIONAL_OPTIONS[conditionType] || []
TableLocalOptions(selectedDistribution, conditionType) ==
  IF selectedDistribution = "age_income"
     /\ conditionType \in DOMAIN DISTRIBUTION_OPTIONS.age_income
    THEN DISTRIBUTION_OPTIONS.age_income[conditionType]
  ELSE IF selectedDistribution = "age_education"
          /\ conditionType \in DOMAIN DISTRIBUTION_OPTIONS.age_education
    THEN DISTRIBUTION_OPTIONS.age_education[conditionType]
  ELSE IF selectedDistribution = "education_sex"
          /\ conditionType \in DOMAIN DISTRIBUTION_OPTIONS.education_sex
    THEN DISTRIBUTION_OPTIONS.education_sex[conditionType]
  ELSE IF conditionType \in DOMAIN CONDITIONAL_OPTIONS_Bivariate
    THEN CONDITIONAL_OPTIONS_Bivariate[conditionType]
  ELSE <<>>

\* ================================================================ sortDistributionData
\* the longest list of arbitrary items sorted
MaxItems == 3

\* AgeIncomeJointChart sortedIncomeData: incomeOrder
incomeOrder ==
  <<"Less than $10,000", "$10,000 to $14,999", "$15,000 to $19,999",
    "$20,000 to $24,999", "$25,000 to $29,999", "$30,000 to $34,999",
    "$35,000 to $39,999", "$40,000 to $44,999", "$45,000 to $49,999",
    "$50,000 to $59,999", "$60,000 to $74,999", "$75,000 to $99,999",
    "$100,000 to $124,999", "$125,000 to $149,999",
    "$150,000 to $199,999", "$200,000 or more">>

\* sortOrder.indexOf(category): the first position, counted from 0, or -1
indexOf(sortOrder, category) ==
  IF category \in Range(sortOrder)
  THEN (CHOOSE i \in 1..Len(sortOrder) :
          sortOrder[i] = category /\ \A j \in 1..(i - 1) : sortOrder[j] # category) - 1
  ELSE 0 - 1

\* the comparison of AgeIncomeJointChart: indexOf(a) - indexOf(b) alone
SortCompare_rawIndex(sortOrder, a, b) ==
  indexOf(sortOrder, a.category) - indexOf(sortOrder, b.category)

\* the comparison function handed to sort: a category that is not found goes
\* to the end
SortCompare(sortOrder, a, b) ==
  LET indexA == indexOf(sortOrder, a.category)
      indexB == indexOf(sortOrder, b.category)
  IN IF indexA = 0 - 1 /\ indexB = 0 - 1 THEN 0
     ELSE IF indexA = 0 - 1 THEN 1
     ELSE IF indexB = 0 - 1 THEN 0 - 1
     ELSE indexA - indexB

\* sortDistributionData(data, distributionType); Array.prototype.sort is
\* stable: an item goes behind the items that compare lower and behind the
\* earlier items that compare equal.  "" is a null distributionType.
sortDistributionData(data, distributionType) ==
  IF data = <<>> THEN data
  ELSE IF distributionType \notin DOMAIN CONDITIONAL_OPTIONS THEN data
  ELSE LET sortOrder == CONDITIONAL_OPTIONS[distributionType]
           Rank(i) == 1 + Cardinality({j \in 1..Len(data) :
                            \/ SortCompare(sortOrder, data[j], data[i]) < 0
                            \/ SortCompare(sortOrder, data[j], data[i]) = 0 /\ j < i})
       IN [p \in 1..Len(data) |-> data[CHOOSE i \in 1..Len(data) : Rank(i) = p]]

\* the data of a marginal: items of a category and a value.  The categories
\* tried: a bracket only the age x income table has, a bracket both income
\* lists have, a bracket of individual income, and one that is in no list;
\* and the 16 brackets of the age x income table, in every rotation.
SortInit ==
  /\ JointInit
  /\ selectedLocation = 1
  /\ selectedAnalysisType = "age"
  /\ SummaryMounted
  /\ matching = NoMatching /\ calc = NoCalc
  /\ bivariate = NoPanel /\ unified = NoPanel /\ chat = NoPanel
  /\ \E distributionType \in {"income", "age", ""} :
       \E data \in
           UNION {{[i \in 1..n |-> [category |-> cs[i], value |-> i]] :
                     cs \in [1..n -> {"Less than $10,000", "$25,000 to $29,999",
                                      "$1 to $2,499 or loss", "Other"}]} : n \in 0..MaxItems}
           \cup {[i \in 1..Len(incomeOrder) |->
                    [category |-> incomeOrder[((i + k) % Len(incomeOrder)) + 1], value |-> i]] :
                  k \in 1..Len(incomeOrder)} :
         sorting = [stage |-> "start", data |-> data, distributionType |-> distributionType]

\* UnifiedDistributionChart / MarginalDistributions:
\* const sortedData = sortDistributionData(data, type); [...data] leaves the
\* argument as it was
Sort ==
  /\ sorting.stage = "start"
  /\ sorting' = [stage |-> "sorted", data |-> sorting.data,
                  distributionType |-> sorting.distributionType,
                  result |-> sortDistributionData(sorting.data, sorting.distributionType)]
  /\ UNCHANGED <<jointVars, summaryVars, engineVars, bivariate, unified, chat>>

SpecSort == SortInit /\ [][Sort]_vars

\* ================================================================ BivariateProbability
\* how many requests of one component are in flight together
MaxPending == 2

\* the distribution buttons pressed
BivariateDistributions == {"gender_education", "age_income"}

\* null for jointData and conditionalData; a response is named by the request
\* that asked for it
NoDistribution == [distribution |-> "", location |-> 0, condition_type |-> "", condition_value |-> ""]

\* how a fetch settles: response.ok, a response that is not ok, or a throw
\* (of fetch or of response.json())
Settlements == {"ok", "not_ok", "throws"}

Remove(s, i) == [j \in 1..(Len(s) - 1) |-> IF j < i THEN s[j] ELSE s[j + 1]]

\* the effect on [selectedDistribution, selectedLocation]: the conditional
\* selections are reset and, with a location, fetchJointDistribution starts:
\* setLoading(true), setError(null), the request leaves
ResetAndFetchJoint(b) ==
  LET reset == [b EXCEPT !.conditionalData = NoDistribution, !.conditionType = "", !.conditionValue = ""]
  IN IF b.selectedLocation = 0 THEN reset
     ELSE [reset EXCEPT !.loading = TRUE, !.error = "",
                        !.pending = Append(b.pending,
                          [NoDistribution EXCEPT !.distribution = b.selectedDistribution,
                                         !.location = b.selectedLocation])]

\* the component after its mount without a location
BivariateInit ==
  /\ JointInit
  /\ selectedLocation = 1
  /\ selectedAnalysisType = "age"
  /\ SummaryMounted
  /\ matching = NoMatching /\ calc = NoCalc
  /\ sorting = NoPanel /\ unified = NoPanel /\ chat = NoPanel
  /\ bivariate = [stage |-> "mounted", selectedLocation |-> 0,
                  selectedDistribution |-> "gender_education",
                  jointData |-> NoDistribution, conditionalData |-> NoDistribution,
                  conditionType |-> "", conditionValue |-> "",
                  loading |-> FALSE, error |-> "", pending |-> <<>>]

\* onClick={() => setSelectedDistribution(key)}, then the effect
SelectDistribution(key) ==
  /\ key \in BivariateDistributions
  /\ key # bivariate.selectedDistribution
  /\ Len(bivariate.pending) < MaxPending
  /\ bivariate' = ResetAndFetchJoint([bivariate EXCEPT !.selectedDistribution = key])
  /\ UNCHANGED <<jointVars, summaryVars, engineVars, sorting, unified, chat>>

\* the selectedLocation prop changes, then the effect
LocationChanges(l) ==
  /\ l \in Locations
  /\ l # bivariate.selectedLocation
  /\ Len(bivariate.pending) < MaxPending
  /\ bivariate' = ResetAndFetchJoint([bivariate EXCEPT !.selectedLocation = l])
  /\ UNCHANGED <<jointVars, summaryVars, engineVars, sorting, unified, chat>>

\* the conditional section is drawn: jointData && !loading
ConditionalSectionShown == bivariate.jointData # NoDistribution /\ ~bivariate.loading

\* the select 'Condition on': one of config.variables or ''
SetConditionType(variable) ==
  /\ ConditionalSectionShown
  /\ variable \in Range(JOINT_DISTRIBUTION_CONFIGS[bivariate.selectedDistribution]) \cup {""}
  /\ bivariate' = [bivariate EXCEPT !.conditionType = variable, !.conditionValue = "",
                                     !.conditionalData = NoDistribution]
  /\ UNCHANGED <<jointVars, summaryVars, engineVars, sorting, unified, chat>>

\* the select 'Value', disabled={!conditionType}: the first of its options
SetConditionValue ==
  /\ ConditionalSectionShown
  /\ bivariate.conditionType # ""
  /\ TableLocalOptions(bivariate.selectedDistribution, bivariate.conditionType) # <<>>
  /\ bivariate' = [bivariate EXCEPT !.conditionValue =
                      Head(TableLocalOptions(bivariate.selectedDistribution, bivariate.conditionType))]
  /\ UNCHANGED <<jointVars, summaryVars, engineVars, sorting, unified, chat>>

\* Calculate, disabled={!conditionType || !conditionValue || loading}:
\* handleConditionSubmit and fetchConditionalDistribution up to its fetch
handleConditionSubmit ==
  /\ ConditionalSectionShown
  /\ bivariate.conditionType # "" /\ bivariate.conditionValue # ""
  /\ bivariate.selectedLocation # 0
  /\ Len(bivariate.pending) < MaxPending
  /\ bivariate' = [bivariate EXCEPT !.loading = TRUE,
                     !.pending = Append(bivariate.pending,
                       [distribution |-> bivariate.selectedDistribution,
                        location |-> bivariate.selectedLocation,
                        condition_type |-> bivariate.conditionType,
                        condition_value |-> bivariate.conditionValue])]
  /\ UNCHANGED <<jointVars, summaryVars, engineVars, sorting, unified, chat>>

\* fetchJointDistribution from its response on
JointSettles(i, k) ==
  /\ i \in 1..Len(bivariate.pending)
  /\ bivariate.pending[i].condition_type = ""
  /\ k \in Settlements
  /\ bivariate' =
       [bivariate EXCEPT
          !.pending = Remove(bivariate.pending, i),
          !.loading = FALSE,
          !.jointData = IF k = "ok" THEN bivariate.pending[i] ELSE NoDistribution,
          !.conditionalData = IF k = "ok" THEN NoDistribution ELSE bivariate.conditionalData,
          !.error = IF k = "ok" THEN bivariate.error
                    ELSE IF k = "not_ok" THEN "Failed to fetch data"
                    ELSE "Failed to fetch joint distribution data"]
  /\ UNCHANGED <<jointVars, summaryVars, engineVars, sorting, unified, chat>>

\* fetchConditionalDistribution from its response on
ConditionalSettles(i, k) ==
  /\ i \in 1..Len(bivariate.pending)
  /\ bivariate.pending[i].condition_type # ""
  /\ k \in Settlements
  /\ bivariate' =
       [bivariate EXCEPT
          !.pending = Remove(bivariate.pending, i),
          !.loading = FALSE,
          !.conditionalData = IF k = "ok" THEN bivariate.pending[i] ELSE bivariate.conditionalData,
          !.error = IF k = "ok" THEN bivariate.error
                    ELSE IF k = "not_ok" THEN "Failed to fetch conditional data"
                    ELSE "Failed to fetch conditional distribution data"]
  /\ UNCHANGED <<jointVars, summaryVars, engineVars, sorting, unified, chat>>

BivariateNext ==
  \/ \E key \in BivariateDistributions : SelectDistribution(key)
  \/ \E l \in Locations : LocationChanges(l)
  \/ \E variable \in {"", "gender", "education", "age", "income"} : SetConditionType(variable)
  \/ SetConditionValue
  \/ handleConditionSubmit
  \/ \E i \in 1..MaxPending, k \in Settlements : JointSettles(i, k)
  \/ \E i \in 1..MaxPending, k \in Settlements : ConditionalSettles(i, k)

SpecBivariate == BivariateInit /\ [][BivariateNext]_vars

\* ================================================================ UnifiedDemographicAnalysis, its requests
\* the analysis types the buttons of which are pressed
UnifiedTypes == {"age", "gender"}

\* what the user types into the custom input of a type
CustomValues == [age |-> "40 to 50 years", gender |-> "Women"]

\* null for analysisData; a response is named by the request that asked for it
NoRequest == [type |-> "", value |-> "", location |-> 0]

\* fetchUnifiedAnalysis of the render in which type and value are the
\* selections: setLoading(true), setError(null), the request leaves
fetchUnifiedAnalysis(u, type, value) ==
  IF u.selectedLocation = 0 \/ type = "" \/ value = "" THEN u
  ELSE [u EXCEPT !.loading = TRUE, !.error = "",
                 !.pending = Append(u.pending,
                   [type |-> type, value |-> value, location |-> u.selectedLocation]),
                 !.lastIssued = [type |-> type, value |-> value, location |-> u.selectedLocation]]

\* the component after its mount without a location: the first effect has
\* put options[0] for the initial value
UnifiedInit ==
  /\ JointInit
  /\ selectedLocation = 1
  /\ selectedAnalysisType = "age"
  /\ SummaryMounted
  /\ matching = NoMatching /\ calc = NoCalc
  /\ sorting = NoPanel /\ bivariate = NoPanel /\ chat = NoPanel
  /\ unified = [stage |-> "mounted", selectedLocation |-> 0,
                selectedAnalysisType |-> "age",
                selectedValue |-> UNIFIED_ANALYSIS_TYPES.age.options[1],
                analysisData |-> NoRequest, loading |-> FALSE, error |-> "",
                pending |-> <<>>, lastIssued |-> NoRequest]

\* the selectedLocation prop changes: the second effect fetches
UnifiedLocationChanges(l) ==
  /\ unified.stage = "mounted"
  /\ l \in Locations
  /\ l # unified.selectedLocation
  /\ Len(unified.pending) < MaxPending
  /\ unified' = fetchUnifiedAnalysis([unified EXCEPT !.selectedLocation = l],
                                      unified.selectedAnalysisType, unified.selectedValue)
  /\ UNCHANGED <<jointVars, summaryVars, engineVars, sorting, bivariate, chat>>

\* onClick={() => setSelectedAnalysisType(key)}.  In the render of the new
\* type the first effect sets the value to options[0] and analysisData to
\* null, and the second effect calls the fetchUnifiedAnalysis of that render,
\* in which selectedValue is still the value of the previous type; the render
\* of the new value runs the second effect again.
setSelectedAnalysisType(key) ==
  /\ unified.stage = "mounted"
  /\ key \in UnifiedTypes
  /\ key # unified.selectedAnalysisType
  /\ Len(unified.pending) + 1 < MaxPending
  /\ LET committed == [unified EXCEPT !.selectedAnalysisType = key, !.analysisData = NoRequest]
         fetched == fetchUnifiedAnalysis(committed, key, unified.selectedValue)
         defaulted == [fetched EXCEPT !.selectedValue = UNIFIED_ANALYSIS_TYPES[key].options[1]]
     IN unified' = IF defaulted.selectedValue # unified.selectedValue
                   THEN fetchUnifiedAnalysis(defaulted, key, defaulted.selectedValue)
                   ELSE defaulted
  /\ UNCHANGED <<jointVars, summaryVars, engineVars, sorting, bivariate, chat>>

\* onClick={() => setSelectedValue(option)} and handleCustomValueSubmit:
\* the second effect fetches with the new value
setSelectedValue(option) ==
  /\ unified.stage = "mounted"
  /\ option \in Range(Take(UNIFIED_ANALYSIS_TYPES[unified.selectedAnalysisType].options, MaxOptions))
                \cup {CustomValues[unified.selectedAnalysisType]}
  /\ option # unified.selectedValue
  /\ Len(unified.pending) < MaxPending
  /\ unified' = fetchUnifiedAnalysis([unified EXCEPT !.selectedValue = option],
                                      unified.selectedAnalysisType, option)
  /\ UNCHANGED <<jointVars, summaryVars, engineVars, sorting, bivariate, chat>>

\* fetchUnifiedAnalysis from its response on
AnalysisSettles(i, k) ==
  /\ unified.stage = "mounted"
  /\ i \in 1..Len(unified.pending)
  /\ k \in Settlements
  /\ unified' =
       [unified EXCEPT
          !.pending = Remove(unified.pending, i),
          !.loading = FALSE,
          !.analysisData = IF k = "ok" THEN unified.pending[i] ELSE NoRequest,
          !.error = IF k = "ok" THEN unified.error
                    ELSE IF k = "not_ok" THEN "Failed to fetch analysis"
                    ELSE CatchMessage[unified.pending[i].type]]
  /\ UNCHANGED <<jointVars, summaryVars, engineVars, sorting, bivariate, chat>>

UnifiedNext ==
  \/ \E l \in Locations : UnifiedLocationChanges(l)
  \/ \E key \in UnifiedTypes : setSelectedAnalysisType(key)
  \/ \E option \in UNION {Range(UNIFIED_ANALYSIS_TYPES[t].options) \cup {CustomValues[t]} : t \in UnifiedTypes} :
       setSelectedValue(option)
  \/ \E i \in 1..MaxPending, k \in Settlements : AnalysisSettles(i, k)

SpecUnified == UnifiedInit /\ [][UnifiedNext]_vars

\* ================================================================ ChatBot
\* the longest transcript
MaxMessages == 4

\* the component as mounted: useState([]), useState(''), useState(false);
\* inFlight and clearing count the fetches of /chat and /chat/clear that
\* have not settled
ChatInit ==
  /\ JointInit
  /\ selectedLocation = 1
  /\ selectedAnalysisType = "age"
  /\ SummaryMounted
  /\ matching = NoMatching /\ calc = NoCalc
  /\ sorting = NoPanel /\ bivariate = NoPanel /\ unified = NoPanel
  /\ chat = [stage |-> "mounted", messages |-> <<>>, inputMessage |-> "",
             isLoading |-> FALSE, inFlight |-> 0, clearing |-> 0]

\* the textarea, disabled={isLoading}: onChange sets inputMessage
TypeMessage ==
  /\ chat.stage = "mounted"
  /\ ~chat.isLoading
  /\ chat.inputMessage = ""
  /\ chat' = [chat EXCEPT !.inputMessage = "question"]
  /\ UNCHANGED <<jointVars, summaryVars, engineVars, sorting, bivariate, unified>>

\* sendMessage up to its fetch: if (!inputMessage.trim() || isLoading) return
sendMessage ==
  /\ chat.stage = "mounted"
  /\ chat.inputMessage # ""
  /\ ~chat.isLoading
  /\ Len(chat.messages) + 1 < MaxMessages
  /\ chat' = [chat EXCEPT !.inputMessage = "",
                           !.messages = Append(chat.messages,
                                               [type |-> "user", content |-> chat.inputMessage]),
                           !.isLoading = TRUE,
                           !.inFlight = chat.inFlight + 1]
  /\ UNCHANGED <<jointVars, summaryVars, engineVars, sorting, bivariate, unified>>

\* sendMessage from its response on: setMessages(prev => [...prev, reply])
ReplyArrives(k) ==
  /\ chat.stage = "mounted"
  /\ chat.inFlight > 0
  /\ k \in Settlements
  /\ chat' = [chat EXCEPT
                 !.messages = Append(chat.messages,
                    IF k = "ok" THEN [type |-> "assistant", content |-> "response"]
                    ELSE IF k = "not_ok"
                      THEN [type |-> "error", content |-> "Failed to get response from chatbot"]
                    ELSE [type |-> "error",
                          content |-> "Network error: Could not connect to chatbot service"]),
                 !.isLoading = FALSE,
                 !.inFlight = chat.inFlight - 1]
  /\ UNCHANGED <<jointVars, summaryVars, engineVars, sorting, bivariate, unified>>

\* clearChat up to its fetch; the button is never disabled
clearChat ==
  /\ chat.stage = "mounted"
  /\ chat.clearing < MaxPending
  /\ chat' = [chat EXCEPT !.clearing = chat.clearing + 1]
  /\ UNCHANGED <<jointVars, summaryVars, engineVars, sorting, bivariate, unified>>

\* clearChat from its response on: setMessages([]) unless the fetch threw
ClearSettles(k) ==
  /\ chat.stage = "mounted"
  /\ chat.clearing > 0
  /\ k \in {"ok", "not_ok", "throws"}
  /\ chat' = [chat EXCEPT !.clearing = chat.clearing - 1,
                           !.messages = IF k = "throws" THEN chat.messages ELSE <<>>]
  /\ UNCHANGED <<jointVars, summaryVars, engineVars, sorting, bivariate, unified>>

ChatNext ==
  \/ TypeMessage
  \/ sendMessage
  \/ \E k \in Settlements : ReplyArrives(k)
  \/ clearChat
  \/ \E k \in Settlements : ClearSettles(k)

SpecChat == ChatInit /\ [][ChatNext]_vars

\* ================================================================ claims
\* the table whose fetch the handler is awaiting
CurrentTable == run.toFetch[run.i]

\* the outcomes gathered once the step is taken: the local results of the
\* invocation, or the published set when the step ends the invocation
ResultsAfter == IF run'.active THEN run'.results ELSE jointConditionalResults'

\* a step that ends the invocation in flight
Completes(k) == FetchSettles(k) /\ ~run'.active

\* C1: single-table failure is isolated.  In every step in which the fetch of a
\* table settles, a fetch that succeeded is recorded as a success outcome that
\* carries the conditional distribution of that table for the request, whatever
\* failed before it, and the outcomes recorded for the other tables stay as
\* they were.
C1_FailureIsolated ==
  [][\A k \in Kinds : FetchSettles(k) =>
       /\ \A n \in 1..Len(run.results) : ResultsAfter[n] = run.results[n]
       /\ k = "ok" =>
            /\ HasKey(ResultsAfter, CurrentTable)
            /\ ~IsError(Get(ResultsAfter, CurrentTable))
            /\ Get(ResultsAfter, CurrentTable).data =
                 [distribution_type |-> CurrentTable,
                  condition_type |-> backendConditionType(run.variable),
                  condition_value |-> run.value,
                  location |-> run.location]]_vars

\* C1 witness: a published result set in which a table succeeded after an
\* earlier table of the same fan-out failed
C1_Witness ==
  \E m, n \in 1..Len(jointConditionalResults) :
    /\ m < n
    /\ IsError(jointConditionalResults[m].val)
    /\ ~IsError(jointConditionalResults[n].val)

\* C2: when a fan-out completes, the published result has exactly one outcome
\* per table of the adjacency list of the request's variable, failed tables
\* included, none for any other table, in the order of the list.
C2_OneOutcomePerTable ==
  [][\A k \in Kinds : Completes(k) =>
       Keys(jointConditionalResults') = distributionMappings[run.variable]]_vars

\* C2 witness: a completed four-table fan-out whose first table succeeded and
\* whose last table failed
C2_Witness ==
  /\ ~jointLoading
  /\ Len(jointConditionalResults) = 4
  /\ ~IsError(jointConditionalResults[1].val)
  /\ IsError(jointConditionalResults[4].val)

StatusOf(outcome) ==
  IF ~IsError(outcome) THEN "success"
  ELSE IF outcome.error = "Data not available" THEN "no_data"
  ELSE "error"

\* C4 (as claimed): a fetch that fails with NotFound is recorded as no_data and
\* one that fails with UpstreamError is recorded as error.
C4_NotFoundAndUpstreamDiffer ==
  [][\A k \in Kinds : FetchSettles(k) =>
       /\ k = "not_found" => StatusOf(Get(ResultsAfter, CurrentTable)) = "no_data"
       /\ k = "upstream" => StatusOf(Get(ResultsAfter, CurrentTable)) = "error"]_vars

\* C5 (as claimed): while the fetch of one table is pending, every other table
\* of the fan-out that has no outcome yet can have its fetch settle.
C5_SiblingsNotDelayed ==
  run.active =>
    \A j \in 1..Len(run.toFetch) :
      (j # run.i /\ ~HasKey(run.results, run.toFetch[j])) =>
        ENABLED (\E k \in Kinds : FetchSettlesFor(j, k))

\* C6: in every state the published result set is empty or holds an outcome
\* for every table of a fan-out, in the order of its list; no part of a
\* fan-out is ever published.
C6_AllOrNothing ==
  \/ jointConditionalResults = <<>>
  \/ \E v \in DOMAIN distributionMappings :
       Keys(jointConditionalResults) = distributionMappings[v]

\* C6 witness: the complete result set of a three-table fan-out, published
C6_Witness ==
  /\ ~jointLoading
  /\ Len(jointConditionalResults) = 3
  /\ ~IsError(jointConditionalResults[2].val)

\* C7 (as claimed): a result set is only ever published for the condition
\* variable and value selected at that moment; the results of a request that
\* was superseded while its fetches were pending are never published.
C7_SupersededDiscarded ==
  [][(jointConditionalResults' # <<>> /\ jointConditionalResults' # jointConditionalResults) =>
       /\ run.variable = jointConditionVariable'
       /\ run.value = jointConditionValue']_vars

\* the available bivariate tables that cross-tabulate variable name w
TablesCrossTabulating(w) ==
  {t \in DOMAIN JOINT_DISTRIBUTION_CONFIGS : w \in Range(JOINT_DISTRIBUTION_CONFIGS[t])}

\* C8 (as claimed): the fan-out list of the anchor variable is the set of
\* available tables that have that variable, under its own name, as one of
\* their two variables.
C8_FanOutByOwnName ==
  run.active => Range(run.toFetch) = TablesCrossTabulating(run.variable)

\* C8 (amended): the fan-out list of the anchor variable is the set of
\* available tables that have that variable, under the name the backend is
\* given for it (race for race_ethnicity), as one of their two variables.
C8_FanOutByBackendName ==
  /\ Range(DistributionsToFetch(jointConditionVariable)) =
       TablesCrossTabulating(backendConditionType(jointConditionVariable))
  /\ run.active =>
       Range(run.toFetch) = TablesCrossTabulating(backendConditionType(run.variable))

\* C8 witness: a fan-out for race_ethnicity in flight
C8_Witness == run.active /\ run.variable = "race_ethnicity" /\ run.i > 1

\* C9: in every completed analysis result the summary agrees with the outcome
\* list: attempted is the number of per-table outcomes (the sections drawn),
\* succeeded is the number of outcomes whose status is success (the charts
\* drawn), and succeeded <= attempted.
C9_SummaryConsistent ==
  (stage = "done" /\ SummaryVisible) =>
    /\ SummaryShown(analysisData).attempted = Len(analysisData.distributions)
    /\ SummaryShown(analysisData).attempted =
         Cardinality(ChartsRendered(analysisData)) + Cardinality(FailedRendered(analysisData))
    /\ SummaryShown(analysisData).succeeded =
         Cardinality({n \in 1..Len(analysisData.distributions) :
                        analysisData.distributions[n].val.status = "success"})
    /\ SummaryShown(analysisData).succeeded = Cardinality(ChartsRendered(analysisData))
    /\ SummaryShown(analysisData).succeeded <= SummaryShown(analysisData).attempted

\* C9 witness: a displayed result of four tables, some succeeded, some not
C9_Witness ==
  /\ stage = "done"
  /\ SummaryVisible
  /\ SummaryShown(analysisData).attempted = 4
  /\ SummaryShown(analysisData).succeeded = 2
  /\ \E n \in 1..4 : analysisData.distributions[n].val.status = "no_match"

\* what the fetch of table t settling as k adds to the outcomes of a request
\* for variable v, value x at location l
OutcomeFor(k, t, v, x, l) ==
  IF k = "network" THEN [error |-> "Network error", data |-> NoBody, displayName |-> ""]
  ELSE IF k = "ok"
    THEN [error |-> "",
          data |-> [distribution_type |-> t,
                    condition_type |-> IF v = "race_ethnicity" THEN "race" ELSE v,
                    condition_value |-> x, location |-> l],
          displayName |-> getDistributionDisplayName(t, v)]
  ELSE [error |-> "Data not available", data |-> NoBody, displayName |-> ""]

\* C10: the engine is stateless.  A request starts from an empty outcome list
\* with the variable, value and location selected when it was issued, whatever
\* was analysed or published before, and every settled fetch adds an outcome
\* that is a function of that request's variable, value and location, the
\* table and the response alone; so two requests with the same inputs and the
\* same responses publish the same result.
C10_Stateless ==
  [][/\ (~run.active /\ run'.active) =>
          /\ run'.results = <<>>
          /\ run'.variable = jointConditionVariable
          /\ run'.value = jointConditionValue
          /\ run'.location = selectedLocation
          /\ run'.toFetch = distributionMappings[jointConditionVariable]
     /\ \A k \in Kinds : FetchSettles(k) =>
          ResultsAfter = Append(run.results,
                                [key |-> CurrentTable,
                                 val |-> OutcomeFor(k, CurrentTable, run.variable,
                                                    run.value, run.location)])]_vars

\* C10 witness: a request in flight, with outcomes gathered, after an earlier
\* request completed and the selection was changed under it
C10_Witness ==
  /\ analysesDone
  /\ run.active
  /\ run.results # <<>>
  /\ run.value # jointConditionValue

FetchReturns == \E k \in Kinds : FetchSettles(k)

\* Spec with the proviso of C12: a fetch that is awaited eventually returns or
\* fails
SpecFair == Spec /\ WF_vars(FetchReturns)

\* C12: every started request terminates.  Provided each awaited fetch
\* eventually returns or fails, a request in flight eventually reaches its end
\* whatever mix of successes and failures its tables give, and the loading
\* flag raised when the analysis started is eventually cleared.
C12_Terminates ==
  (run.active \/ jointLoading) ~> (~run.active /\ ~jointLoading)

\* C12 witness: a request that ran to its end with a failure among its
\* outcomes and the loading flag cleared
C12_Witness ==
  /\ analysesDone
  /\ ~run.active
  /\ ~jointLoading
  /\ Len(jointConditionalResults) = 3
  /\ IsError(jointConditionalResults[1].val)
  /\ ~IsError(jointConditionalResults[3].val)

\* the resolution has produced its MatchResult
Matched == matching.stage \in {"matched", "recorded", "rendered"}

\* two strings that differ at most in the case of their letters
SameLetters(s, t) ==
  /\ Len(s) = Len(t)
  /\ \A i \in 1..Len(s) : s[i] = t[i] \/ {s[i], t[i]} = {"x", "X"}

\* exactly 1.0
IsOne(score) == score.d # 0 /\ score.n = score.d

\* C13: whenever the input equals a candidate of the (non-empty) list up to
\* letter case, match returns that candidate, with score 1.0 and a
\* classification that is exact or case-insensitive, never no_match.
C13_ExactMatchScoresOne ==
  Matched =>
    \A i \in 1..Len(matching.candidates) :
      SameLetters(matching.input, matching.candidates[i].label) =>
        /\ matching.result.matched = matching.candidates[i].label
        /\ IsOne(matching.result.score)
        /\ matching.result.classification \in {"exact", "case-insensitive"}

\* C13 witness: an input in another case than the second candidate of a list
\* of two, resolved to that candidate although the first candidate has the
\* same words
C13_Witness ==
  /\ matching.stage = "matched"
  /\ Len(matching.candidates) = 2
  /\ IsOne(ScoreAgainst(matching.input, matching.candidates[1]).score)
  /\ matching.input # matching.candidates[2].label
  /\ SameLetters(matching.input, matching.candidates[2].label)
  /\ matching.result.matched = matching.candidates[2].label

\* C14 (as claimed): a score of 1.0 is returned only when the input equals the
\* matched category up to letter case, and a section shows a score of 1.0
\* only for an outcome that reports a score, and not a zero one.
C14_OneOnlyForExact ==
  /\ Matched =>
       (IsOne(matching.result.score) =>
          SameLetters(matching.input, matching.result.matched))
  /\ (matching.stage = "rendered" /\ matching.shown.section = "chart") =>
       (IsOne(matching.shown.score) =>
          \/ Truthy(matching.outcome.similarity_score)
          \/ Truthy(matching.outcome.overlap_score))

C16_SubstringScoreRange ==
  Matched =>
    \A i \in 1..Len(matching.candidates) :
      LET r == ScoreAgainst(matching.input, matching.candidates[i])
      IN r.rule = "substring" =>
           /\ Len(matching.input) # Len(matching.candidates[i].label)
           /\ Leq(Frac(6, 10), r.score)
           /\ Less(r.score, Frac(95, 100))
           /\ Less(r.score, One)

\* C16 witness: a match by the substring rule, the input the longer string
C16_Witness ==
  /\ matching.stage = "matched"
  /\ matching.result.explanation.rule = "substring"
  /\ Len(matching.input) > Len(matching.result.matched)
  /\ Less(Frac(8, 10), matching.result.score)

\* ---------------------------------------------------------------- C17
\* the sum of the counts of a set of cells of a table
RECURSIVE SumCells(_, _)
SumCells(table, cells) ==
  IF cells = {} THEN 0
  ELSE LET c == CHOOSE x \in cells : TRUE
       IN table.counts[c] + SumCells(table, cells \ {c})

TableTotal(table) == SumCells(table, DOMAIN table.counts)

RECURSIVE SumFrac(_)
SumFrac(s) ==
  IF s = <<>> THEN Zero
  ELSE LET rest == SumFrac(Tail(s))
       IN Frac(s[1].n * rest.d + rest.n * s[1].d, s[1].d * rest.d)

\* p is a number and lies within 0.1 of 100
NearHundred(p) == p.d > 0 /\ 10 * Abs(p.n - 100 * p.d) <= p.d

IsZero(p) == p.d # 0 /\ p.n = 0

\* C17: the category counts of a marginal distribution sum to the total of
\* the table, the total the chart computes from them is that total, and when
\* the total is positive the percentages, the calculator's and the chart's,
\* sum to 100 within 0.1.
C17_MarginalSumsToTotal ==
  /\ calc.stage \in {"marginal", "charted"} =>
       LET items == calc.distribution.items
       IN /\ SumSeq([i \in 1..Len(items) |-> items[i].count]) = TableTotal(calc.table)
          /\ calc.distribution.total = TableTotal(calc.table)
          /\ TableTotal(calc.table) > 0 =>
               NearHundred(SumFrac([i \in 1..Len(items) |-> items[i].percentage]))
  /\ calc.stage = "charted" =>
       /\ calc.chart.total = TableTotal(calc.table)
       /\ TableTotal(calc.table) > 0 =>
            NearHundred(SumFrac([i \in 1..Len(calc.chart.bars) |->
                                   calc.chart.bars[i].percentage]))

\* C17 witness: a marginal over a total of 3 is charted, one of its bars a
\* third of it.
C17_Witness ==
  /\ calc.stage = "charted"
  /\ calc.chart.total = MaxCount + 1
  /\ calc.chart.bars[1].value = 1
  /\ ~IsZero(calc.chart.bars[2].percentage)

\* ---------------------------------------------------------------- C18
\* C18: a condition category with a total of zero gives a distribution with
\* total 0 and every percentage 0; the fetch that brings it back is recorded
\* without an error and drawn as a chart with total 0 and bars of 0, while
\* every fetch that fails is drawn as 'Data not available'; and a chart over
\* a total of zero has 0 for the percentage of each bar.
C18_ZeroTotalIsSuccess ==
  /\ (calc.stage \in {"conditional", "responded", "rendered"} /\ calc.distribution.total = 0) =>
       \A i \in 1..Len(calc.distribution.items) :
         IsZero(calc.distribution.items[i].percentage)
  /\ (calc.stage \in {"responded", "rendered"} /\ calc.kind = "ok") => calc.result.error = ""
  /\ calc.stage = "rendered" =>
       IF calc.kind = "ok"
       THEN /\ calc.shown.section = "chart"
            /\ calc.shown.total = calc.distribution.total
            /\ calc.distribution.total = 0 => \A i \in 1..Len(calc.shown.bars) : IsZero(calc.shown.bars[i])
       ELSE calc.shown.section = "Data not available"
  /\ (calc.stage = "charted" /\ calc.chart.total = 0) =>
       \A i \in 1..Len(calc.chart.bars) : IsZero(calc.chart.bars[i].percentage)

\* C18 witness: in a table that is not empty, the conditional distribution of
\* a category nobody falls in has come back and is drawn.
C18_Witness ==
  /\ calc.stage = "rendered"
  /\ calc.kind = "ok"
  /\ calc.distribution.total = 0
  /\ TableTotal(calc.table) > 0
  /\ calc.shown.section = "chart"

\* ---------------------------------------------------------------- C19
\* the cells of the table where variable has category and the other
\* variable has otherCategory
CellsWhere(table, variable, category, otherCategory) ==
  {c \in DOMAIN table.counts :
     /\ c[Axis(table, variable)] = category
     /\ c[3 - Axis(table, variable)] = otherCategory}

CountOf(distribution, category) ==
  LET i == CHOOSE j \in 1..Len(distribution.items) : distribution.items[j].category = category
  IN distribution.items[i].count

\* C19: the counts of the conditional distribution of Y given X = x are, per
\* category of Y, the sum of the raw joint cells where X = x, they cover the
\* categories of Y, and their total is the count of x in the marginal of X.
C19_ConditionalIsDirectSum ==
  calc.stage \in {"conditional", "responded", "rendered"} =>
    LET items == calc.distribution.items
        ys == calc.table.categories[3 - Axis(calc.table, calc.variable)]
    IN /\ [i \in 1..Len(items) |-> items[i].category] = ys
       /\ \A i \in 1..Len(items) :
            items[i].count =
              SumCells(calc.table, CellsWhere(calc.table, calc.variable, calc.category, items[i].category))
       /\ calc.distribution.total = CountOf(marginal(calc.table, calc.variable), calc.category)
       /\ calc.distribution.total = SumSeq([i \in 1..Len(items) |-> items[i].count])

\* C19 witness: a conditional distribution over a slice that holds some but
\* not all of the table.
C19_Witness ==
  /\ calc.stage = "conditional"
  /\ calc.distribution.total > 0
  /\ calc.distribution.total < TableTotal(calc.table)
  /\ calc.distribution.items[1].count # calc.distribution.items[2].count

\* ---------------------------------------------------------------- C20
\* C20: the condition value sent for a table of the fan-out is one of that
\* table's own categories for the condition variable.
C20_ConditionIsTableLocal ==
  run.active =>
    RequestBody(CurrentTable, run).condition_value \in
      Range(TableLocalOptions(CurrentTable, RequestBody(CurrentTable, run).condition_type))

\* ---------------------------------------------------------------- C21
Categories(data) == [i \in 1..Len(data) |-> data[i].category]

\* C21: data whose categories are the 16 income brackets of the age x income
\* table come back from sortDistributionData(data, 'income') in the order of
\* incomeOrder.
C21_IncomeBracketsAscending ==
  (/\ sorting.stage = "sorted"
   /\ sorting.distributionType = "income"
   /\ Len(sorting.data) = Len(incomeOrder)
   /\ Range(Categories(sorting.data)) = Range(incomeOrder))
  => Categories(sorting.result) = incomeOrder

\* ---------------------------------------------------------------- C22
\* C22: sortDistributionData leaves its argument as it was and returns a
\* permutation of it: the items whose category is in the sort order first, by
\* the index of their category, the others behind them, and items that
\* compare equal in their original order; for a distribution type without a
\* sort order, or no data, it returns the data as they are.
C22_SortIsStablePermutation ==
  [][(sorting.stage = "start" /\ sorting'.stage = "sorted") =>
       LET d == sorting.data
           r == sorting'.result
           t == sorting.distributionType
           Found(x) == x.category \in Range(CONDITIONAL_OPTIONS[t])
           Index(x) == indexOf(CONDITIONAL_OPTIONS[t], x.category)
       IN /\ sorting'.data = d
          /\ Len(r) = Len(d)
          /\ Range(r) = Range(d)
          /\ IF d = <<>> \/ t \notin DOMAIN CONDITIONAL_OPTIONS THEN r = d
             ELSE \A i, j \in 1..Len(r) : i < j =>
                    /\ (Found(r[i]) /\ Found(r[j])) => Index(r[i]) <= Index(r[j])
                    /\ ~Found(r[i]) => ~Found(r[j])
                    /\ (Found(r[i]) = Found(r[j]) /\ (Found(r[i]) => Index(r[i]) = Index(r[j])))
                         => r[i].value < r[j].value]_vars

\* C22 witness: income data that start with an item of an unknown category
\* have been sorted: the item is last and the rest has moved.
C22_Witness ==
  /\ sorting.stage = "sorted"
  /\ sorting.distributionType = "income"
  /\ Len(sorting.data) = MaxItems
  /\ sorting.data[1].category = "Other"
  /\ sorting.result[Len(sorting.result)].category = "Other"
  /\ sorting.result[1].category = "$1 to $2,499 or loss"
  /\ sorting.data[2].category = "Less than $10,000"

\* ---------------------------------------------------------------- C23
\* the variable of a table other than the condition variable
PairedVariable(t, v) ==
  LET pair == JOINT_DISTRIBUTION_CONFIGS[t]
  IN IF pair[1] = backendConditionType(v) THEN pair[2] ELSE pair[1]

VariableTitle ==
  [age |-> "Age Distribution", gender |-> "Gender Distribution", sex |-> "Sex Distribution",
   income |-> "Income Distribution", education |-> "Education Distribution",
   profession |-> "Profession Distribution", race |-> "Race Distribution"]

\* C23: for the condition variable of a run and every table of its fan-out,
\* getDistributionDisplayName gives the name of the variable the table pairs
\* with the condition variable, and not the name of the condition variable;
\* every table recorded with its distribution carries that name.
C23_DisplayNameIsPairedVariable ==
  run.active =>
    /\ \A t \in Range(run.toFetch) :
         /\ backendConditionType(run.variable) \in Range(JOINT_DISTRIBUTION_CONFIGS[t])
         /\ getDistributionDisplayName(t, run.variable) =
              VariableTitle[PairedVariable(t, run.variable)]
         /\ getDistributionDisplayName(t, run.variable) #
              VariableTitle[backendConditionType(run.variable)]
    /\ \A i \in 1..Len(run.results) :
         ~IsError(run.results[i].val) =>
           run.results[i].val.displayName =
             VariableTitle[PairedVariable(run.results[i].key, run.variable)]

\* C23 witness: the fan-out of education has recorded age_education as
\* 'Age Distribution' and is at education_sex, the table the name of which
\* comes from the mapping.
C23_Witness ==
  /\ run.active
  /\ run.variable = "education"
  /\ run.toFetch[run.i] = "education_sex"
  /\ \E i \in 1..Len(run.results) :
       /\ run.results[i].key = "age_education"
       /\ run.results[i].val.displayName = "Age Distribution"

\* ---------------------------------------------------------------- C24
\* the conditional distribution is on the screen
ConditionalShown == ConditionalSectionShown /\ bivariate.conditionalData # NoDistribution

\* C24: a change of the distribution or of the location empties
\* conditionType, conditionValue and conditionalData, and a conditional
\* distribution that is held or shown was asked for the distribution and the
\* location now selected.
C24_NoStaleConditional ==
  /\ [][\A key \in BivariateDistributions, l \in Locations :
          (SelectDistribution(key) \/ LocationChanges(l)) =>
            /\ bivariate'.conditionType = "" /\ bivariate'.conditionValue = ""
            /\ bivariate'.conditionalData = NoDistribution]_vars
  /\ [](bivariate.stage = "mounted" /\ bivariate.conditionalData # NoDistribution =>
          /\ bivariate.conditionalData.distribution = bivariate.selectedDistribution
          /\ bivariate.conditionalData.location = bivariate.selectedLocation)

\* ---------------------------------------------------------------- C29
\* C29: when a conditional fetch completes with success the error is null
\* after it, and when it fails no conditional distribution is held after it.
C29_ErrorOfLastRequest ==
  [][\A i \in 1..MaxPending, k \in Settlements :
       ConditionalSettles(i, k) =>
         IF k = "ok" THEN bivariate'.error = ""
         ELSE bivariate'.conditionalData = NoDistribution]_vars

\* ---------------------------------------------------------------- C25
\* C25: every request in flight carries, under the parameter key of its
\* analysis type, one of the options of that type or the custom value
\* entered for that type.
C25_ValueBelongsToType ==
  unified.stage = "mounted" =>
    \A i \in 1..Len(unified.pending) :
      unified.pending[i].value \in
        Range(UNIFIED_ANALYSIS_TYPES[unified.pending[i].type].options)
          \cup {CustomValues[unified.pending[i].type]}

\* ---------------------------------------------------------------- C26
\* C26: when no request is in flight, the analysisData on the screen is the
\* response to the request issued last.
C26_LastIssuedWins ==
  (/\ unified.stage = "mounted"
   /\ unified.pending = <<>>
   /\ unified.analysisData # NoRequest)
  => unified.analysisData = unified.lastIssued

\* ---------------------------------------------------------------- C27
\* C27: loading is true while a request is in flight.
C27_LoadingWhilePending ==
  (unified.stage = "mounted" /\ unified.pending # <<>>) => unified.loading

\* ---------------------------------------------------------------- C28
\* C28: when no request is in flight, analysisData and error are not both
\* set.
C28_DataOrError ==
  (unified.stage = "mounted" /\ unified.pending = <<>>)
  => ~(unified.analysisData # NoRequest /\ unified.error # "")

\* ---------------------------------------------------------------- C30
\* C30: at most one chat request is in flight, and the transcript
\* alternates, starting with a user message: a user message at every odd
\* position, its assistant or error reply at the even position behind it,
\* the last user message without a reply only while its request is in flight.
C30_TranscriptAlternates ==
  chat.stage = "mounted" =>
    /\ chat.inFlight <= 1
    /\ \A i \in 1..Len(chat.messages) :
         IF i % 2 = 1 THEN chat.messages[i].type = "user"
         ELSE chat.messages[i].type \in {"assistant", "error"}
    /\ Len(chat.messages) % 2 = chat.inFlight

====
